---- MODULE Spec2Model ----
(***************************************************************************)
(* A model of showind.py (firelab/showind): the import of hobo wind logger *)
(* csv files into the mean_flow_obs table, the time- and plot-bounded      *)
(* queries over it, the field report, the statistics, the command line     *)
(* driver and the helper _extract_xy.                                      *)
(*                                                                         *)
(* Numbers are integers (whole mph, whole degrees).  A datetime is a pair  *)
(* <<day, hour>>; sqlite stores and compares it as the fixed-width text    *)
(* 'YYYY-MM-DD HH:MM:SS', which orders as the pair does.  None is <<>>.    *)
(***************************************************************************)
EXTENDS Integers, Sequences, FiniteSets, TLC

VARIABLES
    obs,      \* mean_flow_obs as the session's connection sees it, in rowid order
    ncommit,  \* how many of those rows are committed (a prefix: rows are only added)
    start,    \* self.start
    end,      \* self.end
    nfiles,   \* files handed to import_hobo so far
    arg,      \* the input of a pure helper under test
    ret       \* what the last operation did and returned

vars == <<obs, ncommit, start, end, nfiles, arg, ret>>

None == <<>>

NoRet == [op |-> "none"]

(***************************************************************************)
(* Bounds of the model.                                                    *)
(***************************************************************************)
\* Files handed to import_hobo in one run of the session, over all its calls.
MaxFiles == 2

\* Lines of a file, the two header lines included.
MaxLines == 6

(***************************************************************************)
(* Generic helpers on sequences.                                           *)
(***************************************************************************)
Range(s) == {s[i] : i \in 1..Len(s)}

SeqsUpTo(S, n) == UNION {[1..k -> S] : k \in 0..n}

\* The orders the members of a set may come in.
Orders(S) == {o \in [1..Cardinality(S) -> S] : \A i, j \in 1..Len(o) : o[i] = o[j] => i = j}

(***************************************************************************)
(* Text of a csv line: a sequence of tokens.  A token is a comma, a line   *)
(* break, a number, a time stamp 'MM/DD/YY hh:mm:ss AM|PM' (day, hour on   *)
(* the 12 hour clock, AM or PM) or any other text.                         *)
(***************************************************************************)
Comma == [k |-> "comma"]

NewLine == [k |-> "nl"]

Num(v) == [k |-> "num", v |-> v]

Junk == [k |-> "junk"]

Stamp(d, h, ap) == [k |-> "stamp", d |-> d, h |-> h, ap |-> ap]

\* str.split(','): the fields between the commas, one more than there are commas.
RECURSIVE SplitFrom(_, _)
SplitFrom(line, cur) ==
    IF line = <<>> THEN <<cur>>
    ELSE IF Head(line) = Comma THEN <<cur>> \o SplitFrom(Tail(line), <<>>)
    ELSE SplitFrom(Tail(line), Append(cur, Head(line)))

Split(line) == SplitFrom(line, <<>>)

\* Leading and trailing white space, which float() ignores.
RECURSIVE StripWs(_)
StripWs(f) ==
    IF f # <<>> /\ Head(f) = NewLine THEN StripWs(Tail(f))
    ELSE IF f # <<>> /\ f[Len(f)] = NewLine THEN StripWs(SubSeq(f, 1, Len(f) - 1))
    ELSE f

\* float(text): the number, or ValueError.
Float(f) ==
    LET t == StripWs(f) IN
    IF Len(t) = 1 /\ t[1].k = "num"
    THEN [ok |-> TRUE, v |-> t[1].v]
    ELSE [ok |-> FALSE, v |-> 0]

\* datetime.strptime(text, '%m/%d/%y %I:%M:%S %p'): %I takes 1..12, 12 AM is
\* hour 0 and 12 PM is hour 12; anything else is ValueError.
HoboDate(f) ==
    IF Len(f) = 1 /\ f[1].k = "stamp" /\ f[1].h \in 1..12
    THEN [ok |-> TRUE,
          v |-> <<f[1].d, (f[1].h % 12) + (IF f[1].ap = "PM" THEN 12 ELSE 0)>>]
    ELSE [ok |-> FALSE, v |-> None]

(***************************************************************************)
(* File names.                                                             *)
(***************************************************************************)
Upper(s) ==
    CASE s = "a" -> "A"
      [] s = "b" -> "B"
      [] OTHER -> s

\* os.path.splitext(csv)[1] == '.csv'
IsCsv(name) == name.ext = ".csv"

\* os.path.splitext(os.path.basename(csv))[0].upper()
PlotOf(name) == Upper(name.base)

(***************************************************************************)
(* import_hobo                                                             *)
(***************************************************************************)
HeaderLines == 2

FieldCount == 5

QualityClosed(spd, gust, dir) ==
    IF spd < 0 \/ gust < 0 \/ dir < 0 \/ dir >= 360 THEN "SUSPECT" ELSE "OK"

\* The quality flag of a record.
Quality(spd, gust, dir) ==
    LET q1 == IF spd < 0 THEN "SUSPECT" ELSE "OK"
        q2 == IF gust < 0 THEN "SUSPECT" ELSE q1
        q3 == IF dir < 0 \/ dir > 360 THEN "SUSPECT" ELSE q2
    IN q3

Row(plot, date, spd, gust, dir, quality) ==
    [plot_id |-> plot, date_time |-> date, wind_speed |-> spd,
     wind_gust |-> gust, wind_dir |-> dir, quality |-> quality]

\* primary key(plot_id, date_time)
SameKey(r, s) == r.plot_id = s.plot_id /\ r.date_time = s.date_time

InsertAlways(table, row) == [ok |-> TRUE, table |-> Append(table, row)]

\* INSERT INTO mean_flow_obs: sqlite3.IntegrityError when the key is taken.
Insert(table, row) ==
    IF \E i \in 1..Len(table) : SameKey(table[i], row)
    THEN [ok |-> FALSE, table |-> table]
    ELSE [ok |-> TRUE, table |-> Append(table, row)]

SkipHeaderOne(header) == header < 1

\* The first two lines of a file are passed over.
SkipHeader(header) == header < HeaderLines

\* The loop over the lines of one file: the table afterwards and the exception
\* that ended the loop, if any.
RECURSIVE ImportLines(_, _, _, _)
ImportLines(plot, lines, header, table) ==
    IF lines = <<>> THEN [table |-> table, exc |-> "none"]
    ELSE IF SkipHeader(header)
    THEN ImportLines(plot, Tail(lines), header + 1, table)
    ELSE
        LET line == Split(Head(lines)) IN
        IF Len(line) # FieldCount
        THEN ImportLines(plot, Tail(lines), header, table)
        ELSE
            LET date == HoboDate(line[2])
                spd == Float(line[3])
                gust == Float(line[4])
                dir == Float(line[5])
            IN
            IF ~(date.ok /\ spd.ok /\ gust.ok /\ dir.ok)
            THEN [table |-> table, exc |-> "ValueError"]
            ELSE
                LET ins == Insert(table,
                                  Row(plot, date.v, spd.v, gust.v, dir.v,
                                      Quality(spd.v, gust.v, dir.v)))
                IN
                IF ~ins.ok
                THEN [table |-> table, exc |-> "IntegrityError"]
                ELSE ImportLines(plot, Tail(lines), header, ins.table)

\* The loop over the csv files: each file's rows are committed once the file is
\* read to its end; an exception leaves the loop and the call.
RECURSIVE ImportFiles(_, _, _)
ImportFiles(files, table, committed) ==
    IF files = <<>> THEN [table |-> table, committed |-> committed, exc |-> "none"]
    ELSE
        LET r == ImportLines(PlotOf(Head(files).name), Head(files).lines, 0, table) IN
        IF r.exc # "none"
        THEN [table |-> r.table, committed |-> committed, exc |-> r.exc]
        ELSE ImportFiles(Tail(files), r.table, Len(r.table))

\* The files of the directory that import_hobo reads.
CsvFiles(dir) == SelectSeq(dir, LAMBDA f : IsCsv(f.name))

(***************************************************************************)
(* Dates of the command line and of the events table.                      *)
(***************************************************************************)
\* 'YYYY-MM-DD<sep>HH:MM:SS'
Iso(sep, d, h) == [k |-> "iso", sep |-> sep, d |-> d, h |-> h]

\* _import_date: strptime(string, "%Y-%m-%dT%H:%M:%S"), or ValueError.
ImportDate(string) ==
    IF string.k = "iso" /\ string.sep = "T" /\ string.h \in 0..23
    THEN [ok |-> TRUE, v |-> <<string.d, string.h>>]
    ELSE [ok |-> FALSE, v |-> None]

\* string.replace(' ', 'T')
ReplaceSpace(string) ==
    IF string.k = "iso" /\ string.sep = " " THEN [string EXCEPT !.sep = "T"] ELSE string

\* ShoWind.__init__: self.start or self.end of a start or end argument.
InitDate(string) == IF string = None THEN None ELSE ImportDate(string).v

(***************************************************************************)
(* fetch_point_data                                                        *)
(***************************************************************************)
\* The order of the date_time text 'YYYY-MM-DD HH:MM:SS'.
Leq(a, b) == a[1] < b[1] \/ (a[1] = b[1] /\ a[2] <= b[2])

BetweenOpen(t, lo, hi) ==
    lo # None /\ hi # None /\ Leq(lo, t) /\ Leq(t, hi) /\ t # lo /\ t # hi

\* date_time BETWEEN ? AND ?: both ends included; NULL bounds match nothing.
Between(t, lo, hi) == lo # None /\ hi # None /\ Leq(lo, t) /\ Leq(t, hi)

\* WHERE plot_id=? AND date_time BETWEEN ? AND ? AND quality='OK'
Selected(r, plot, lo, hi) ==
    r.plot_id = plot /\ Between(r.date_time, lo, hi) /\ r.quality = "OK"

\* The rows the query selects, as a scan of the table meets them (rowid order).
TableScan(table, plot, lo, hi) ==
    SelectSeq(table, LAMBDA r : Selected(r, plot, lo, hi))

\* A sequence of rows of one plot put in the order of the key's index.
RECURSIVE ByDate(_)
ByDate(rows) ==
    IF rows = <<>> THEN <<>>
    ELSE LET i == CHOOSE i \in 1..Len(rows) :
                      \A j \in 1..Len(rows) : Leq(rows[i].date_time, rows[j].date_time)
         IN <<rows[i]>> \o ByDate(SubSeq(rows, 1, i - 1) \o SubSeq(rows, i + 1, Len(rows)))

\* The same rows as a search of the index of the primary key meets them.
IndexSearch(table, plot, lo, hi) == ByDate(TableScan(table, plot, lo, hi))

Reverse(rows) == [i \in 1..Len(rows) |-> rows[Len(rows) + 1 - i]]

\* The statement has no ORDER BY: the rows come in the order of the access path
\* sqlite takes, the key's index walked up or down, or the table.
FetchResults(table, plot, lo, hi) ==
    {IndexSearch(table, plot, lo, hi),
     Reverse(IndexSearch(table, plot, lo, hi)),
     TableScan(table, plot, lo, hi)}

(***************************************************************************)
(* _extract_xy.  A text is a sequence of characters; a coordinate is an    *)
(* integer number of thousandths.                                          *)
(***************************************************************************)
IsSpace(c) == c \in {" ", "\t"}

UpperChar(c) ==
    CASE c = "p" -> "P"
      [] c = "o" -> "O"
      [] c = "i" -> "I"
      [] c = "n" -> "N"
      [] c = "t" -> "T"
      [] OTHER -> c

\* str.upper()
UpperText(w) == [i \in 1..Len(w) |-> UpperChar(w[i])]

\* str.strip()
RECURSIVE Strip(_)
Strip(w) ==
    IF w # <<>> /\ IsSpace(Head(w)) THEN Strip(Tail(w))
    ELSE IF w # <<>> /\ IsSpace(w[Len(w)]) THEN Strip(SubSeq(w, 1, Len(w) - 1))
    ELSE w

\* str.find(sub): the lowest index, from 0, where sub starts, or -1.
Find(w, sub) ==
    LET at == {i \in 0..(Len(w) - Len(sub)) : SubSeq(w, i + 1, i + Len(sub)) = sub}
    IN IF at = {} THEN -1 ELSE CHOOSE i \in at : \A j \in at : i <= j

\* w[a:b] for a >= 0: a negative b counts from the end.
Slice(w, a, b) ==
    LET hi == IF b < 0 THEN (IF Len(w) + b < 0 THEN 0 ELSE Len(w) + b)
              ELSE (IF b > Len(w) THEN Len(w) ELSE b)
    IN IF a >= hi THEN <<>> ELSE SubSeq(w, a + 1, hi)

\* str.split(): the runs of characters between white space.
RECURSIVE SplitWsFrom(_, _)
SplitWsFrom(w, cur) ==
    IF w = <<>> THEN (IF cur = <<>> THEN <<>> ELSE <<cur>>)
    ELSE IF IsSpace(Head(w))
    THEN (IF cur = <<>> THEN <<>> ELSE <<cur>>) \o SplitWsFrom(Tail(w), <<>>)
    ELSE SplitWsFrom(Tail(w), Append(cur, Head(w)))

SplitWs(w) == SplitWsFrom(w, <<>>)

Digits == {"0", "1", "2", "3", "4", "5", "6", "7", "8", "9"}

DigitValue(c) ==
    CASE c = "0" -> 0 [] c = "1" -> 1 [] c = "2" -> 2 [] c = "3" -> 3 [] c = "4" -> 4
      [] c = "5" -> 5 [] c = "6" -> 6 [] c = "7" -> 7 [] c = "8" -> 8 [] c = "9" -> 9

RECURSIVE Decimal(_)
Decimal(ds) == IF ds = <<>> THEN 0 ELSE 10 * Decimal(SubSeq(ds, 1, Len(ds) - 1)) + DigitValue(ds[Len(ds)])

\* float(text) of a token: an optional sign, digits, at most one point and at
\* most three digits after it; anything else is ValueError.  (Exponents, inf
\* and nan, which float() also reads, are not written by the model.)
FloatOfText(t) ==
    LET signed == t # <<>> /\ Head(t) \in {"-", "+"}
        body == IF signed THEN Tail(t) ELSE t
        dot == Find(body, <<".">>)
        whole == IF dot < 0 THEN body ELSE SubSeq(body, 1, dot)
        frac == IF dot < 0 THEN <<>> ELSE SubSeq(body, dot + 2, Len(body))
        scale == CASE Len(frac) = 0 -> 1000 [] Len(frac) = 1 -> 100
                   [] Len(frac) = 2 -> 10 [] OTHER -> 1
        good == /\ Len(whole) + Len(frac) > 0
                /\ Len(frac) <= 3
                /\ \A i \in 1..Len(whole) : whole[i] \in Digits
                /\ \A i \in 1..Len(frac) : frac[i] \in Digits
    IN IF good
       THEN [ok |-> TRUE,
             v |-> (IF signed /\ Head(t) = "-" THEN -1 ELSE 1)
                   * (Decimal(whole) * 1000 + Decimal(frac) * scale)]
       ELSE [ok |-> FALSE, v |-> 0]

PayloadStartAtParen(w) == Find(w, <<"(">>)

\* wkt.find('(')+1
PayloadStart(w) == Find(w, <<"(">>) + 1

\* _extract_xy(wkt): the pair of coordinates, or ValueError.
ExtractXY(text) ==
    LET wkt == UpperText(Strip(text))
        payload == SplitWs(Slice(wkt, PayloadStart(wkt), Find(wkt, <<")">>)))
    IN
    IF Find(wkt, <<"P", "O", "I", "N", "T">>) < 0 THEN [ok |-> FALSE, xy |-> <<>>]
    ELSE IF Len(payload) # 2 THEN [ok |-> FALSE, xy |-> <<>>]
    ELSE IF ~(FloatOfText(payload[1]).ok /\ FloatOfText(payload[2]).ok)
    THEN [ok |-> FALSE, xy |-> <<>>]
    ELSE [ok |-> TRUE, xy |-> <<FloatOfText(payload[1]).v, FloatOfText(payload[2]).v>>]

(***************************************************************************)
(* statistics and _point_kml                                               *)
(***************************************************************************)
\* cos of 0, 5, ..., 90 degrees, in ten-thousandths.
CosQuarter ==
    <<10000, 9962, 9848, 9659, 9397, 9063, 8660, 8192, 7660, 7071,
      6428, 5736, 5000, 4226, 3420, 2588, 1736, 872, 0>>

\* cos and sin of a multiple of 5 degrees, in ten-thousandths.
Cos(d) ==
    LET a == d % 360
    IN IF a <= 90 THEN CosQuarter[(a \div 5) + 1]
       ELSE IF a <= 180 THEN -CosQuarter[((180 - a) \div 5) + 1]
       ELSE IF a <= 270 THEN -CosQuarter[((a - 180) \div 5) + 1]
       ELSE CosQuarter[((360 - a) \div 5) + 1]

Sin(d) == Cos(d + 270)

Angles == {5 * k : k \in -35..36}

\* The angle of the vector (c, s) in (-180, 180], to the nearest 5 degrees;
\* arctan2(0, 0) is 0.
Atan2(s, c) ==
    IF s = 0 /\ c = 0 THEN 0
    ELSE CHOOSE a \in Angles :
            \A b \in Angles : c * Cos(b) + s * Sin(b) <= c * Cos(a) + s * Sin(a)

RECURSIVE Sum(_)
Sum(xs) == IF xs = <<>> THEN 0 ELSE Head(xs) + Sum(Tail(xs))

RECURSIVE MaxOf(_)
MaxOf(xs) ==
    IF Len(xs) = 1 THEN xs[1]
    ELSE IF Head(xs) >= MaxOf(Tail(xs)) THEN Head(xs) ELSE MaxOf(Tail(xs))

ArithmeticMean(dirs) == Sum(dirs) \div Len(dirs)

\* circmean(samples, 360, 0): the angle of the sum of the unit vectors of the
\* samples, lifted into [0, 360) when negative.
CircMean(dirs) ==
    LET c == Sum([i \in 1..Len(dirs) |-> Cos(dirs[i])])
        s == Sum([i \in 1..Len(dirs) |-> Sin(dirs[i])])
        res == Atan2(s, c)
    IN IF res < 0 THEN res + 360 ELSE res

\* statistics(data).  The speed mean and the speed variance (the square of the
\* standard deviation returned) are fractions <<numerator, denominator>>; the
\* standard deviation of the direction is not modelled.  Of no data numpy.mean
\* and numpy.std give nan and numpy.max raises ValueError: nothing is returned.
Statistics(data) ==
    IF data = <<>> THEN [kind |-> "ValueError"]
    ELSE LET n == Len(data)
             spd == [i \in 1..n |-> data[i].wind_speed]
         IN [kind |-> "summary",
             spd_mean |-> <<Sum(spd), n>>,
             spd_var |-> <<n * Sum([i \in 1..n |-> spd[i] * spd[i]]) - Sum(spd) * Sum(spd), n * n>>,
             gust_max |-> MaxOf([i \in 1..n |-> data[i].wind_gust]),
             direction_mean |-> CircMean([i \in 1..n |-> data[i].wind_dir])]

\* point_location(plot): geometry is the text stored for the plot in
\* plot_location, or None when the plot has no row there.
PointLocation(geometry) ==
    IF geometry = None THEN [ok |-> FALSE, exc |-> "TypeError", xy |-> <<>>]
    ELSE IF ExtractXY(geometry).ok THEN [ok |-> TRUE, exc |-> "none", xy |-> ExtractXY(geometry).xy]
    ELSE [ok |-> FALSE, exc |-> "ValueError", xy |-> <<>>]

\* _point_kml(plot, data, images): the placemark, the empty text of the branch
\* 'Could not calculate stats', or the exception that leaves the method.
PointKml(plot, geometry, data, images) ==
    LET loc == PointLocation(geometry)
        stats == Statistics(data)
    IN
    IF ~loc.ok THEN [kind |-> "raise", exc |-> loc.exc]
    ELSE IF stats.kind # "summary" /\ stats.kind # "None"
    THEN [kind |-> "raise", exc |-> stats.kind]
    ELSE IF stats.kind = "None" THEN [kind |-> "empty"]
    ELSE [kind |-> "placemark",
          heading |-> IF stats.direction_mean < 0 THEN stats.direction_mean + 360
                      ELSE stats.direction_mean,
          coordinates |-> loc.xy,
          name |-> plot,
          images |-> images,
          table |-> <<stats.spd_mean, stats.spd_var, stats.gust_max, stats.direction_mean>>]

(***************************************************************************)
(* create_field_kmz                                                        *)
(***************************************************************************)
\* The plots of the model, and the steps of a report that may raise.
Plots == {"A", "B"}

Steps == {"none", "chart", "rose", "kml"}

Unbound == "unbound"

\* What create_windrose returns of no data.
NoFile == "None"

\* SELECT DISTINCT(plot_id) FROM mean_flow_obs WHERE date_time BETWEEN ? AND ?
DistinctPlots(table, lo, hi) ==
    {table[i].plot_id : i \in {j \in 1..Len(table) : Between(table[j].date_time, lo, hi)}}

SkipPlotNever(data) == FALSE

\* if not data: continue
SkipPlot(data) == data = <<>>

\* The except clause of the loop: it reads pngfile and rosefile, which are set
\* only once a chart and a rose have been made; rosefile is None after a rose
\* of no data.  Reading an unset name raises UnboundLocalError, and
\* os.path.exists(None) raises TypeError: either leaves create_field_kmz.
Handler(png, rose) ==
    IF png = Unbound \/ rose = Unbound THEN "UnboundLocalError"
    ELSE IF rose = NoFile THEN "TypeError"
    ELSE "none"

\* The loop over the plots.  fails[p] names the step that raises for plot p:
\* the chart, the rose, the placemark, or none.
RECURSIVE FieldLoop(_, _, _, _, _, _)
FieldLoop(plots, table, lo, hi, fails, st) ==
    IF plots = <<>> THEN st
    ELSE
        LET plot == Head(plots)
            data == TableScan(table, plot, lo, hi)
            quit(png, rose) ==
                IF Handler(png, rose) = "none"
                THEN FieldLoop(Tail(plots), table, lo, hi, fails,
                               [st EXCEPT !.png = png, !.rose = rose])
                ELSE [st EXCEPT !.exc = Handler(png, rose), !.at = plot]
        IN
        IF SkipPlot(data) THEN FieldLoop(Tail(plots), table, lo, hi, fails, st)
        ELSE IF fails[plot] = "chart" THEN quit(st.png, st.rose)
        ELSE IF fails[plot] = "rose" THEN quit(plot, st.rose)
        ELSE
            LET rose == IF Len(data) >= 1 THEN plot ELSE NoFile IN
            IF fails[plot] = "kml" \/ Statistics(data).kind # "summary" THEN quit(plot, rose)
            ELSE FieldLoop(Tail(plots), table, lo, hi, fails,
                           [st EXCEPT !.png = plot, !.rose = rose,
                                      !.doc = Append(st.doc, plot)])

\* create_field_kmz: the placemarks written, and whether the document and the
\* archive were closed or an exception left the call.
FieldKmz(plots, table, lo, hi, fails) ==
    LET st == FieldLoop(plots, table, lo, hi, fails,
                        [png |-> Unbound, rose |-> Unbound, doc |-> <<>>,
                         exc |-> "none", at |-> "none"])
    IN [doc |-> st.doc, exc |-> st.exc, at |-> st.at, closed |-> st.exc = "none"]

(***************************************************************************)
(* __main__                                                                *)
(***************************************************************************)
\* An option that was not given (None), which 'not' takes for false.
Absent == ""

\* The events table of the database: name, start, end.
Events == [name \in {"E1"} |-> [start |-> Iso(" ", 1, 12), end |-> Iso(" ", 2, 1)]]

\* SELECT start, end FROM events WHERE name=?, fetchone(): a NULL name matches
\* no row.
EventRows(event) == IF event # Absent /\ event \in DOMAIN Events THEN {Events[event]} ELSE {}

\* The three checks that end in usage() before the database is opened.
MainUsage(a) ==
    \/ a.plot = Absent
    \/ (~a.windrose /\ ~a.timeseries /\ a.plot # "all")
    \/ (~(a.start # None /\ a.end # None) /\ a.event = Absent)

\* What a run of the script with the options a does on the committed table:
\* how it ends, the window of its session when it ends, the SQL statements it
\* ran, and what it produced.
MainResults(a, table) ==
    LET s0 == InitDate(a.start)
        e0 == InitDate(a.end)
        base == [op |-> "main", args |-> a, outcome |-> "usage", window |-> <<None, None>>,
                 fetched |-> FALSE, queries |-> 0, rows |-> 0,
                 kmz |-> [doc |-> <<>>, exc |-> "none", at |-> "none", closed |-> FALSE]]
    IN
    IF MainUsage(a) THEN {base}
    ELSE IF a.plot # "all"
    THEN {[base EXCEPT !.outcome = IF d = <<>> THEN "Could not fetch data for plot"
                                   ELSE "charts",
                       !.window = <<s0, e0>>,
                       !.fetched = TRUE,
                       !.queries = 1,
                       !.rows = Len(d)] : d \in FetchResults(table, a.plot, s0, e0)}
    ELSE IF EventRows(a.event) = {}
    THEN {[base EXCEPT !.outcome = "Could not load event",
                       !.window = <<s0, e0>>,
                       !.queries = 1]}
    ELSE
        LET ev == CHOOSE r \in EventRows(a.event) : TRUE
            s1 == ImportDate(ReplaceSpace(ev.start)).v
            e1 == ImportDate(ReplaceSpace(ev.end)).v
        IN {[base EXCEPT !.outcome = "report",
                         !.window = <<s1, e1>>,
                         !.fetched = TRUE,
                         !.queries = 2 + Len(o),
                         !.kmz = FieldKmz(o, table, s1, e1, fails)] :
                o \in Orders(DistinctPlots(table, s1, e1)), fails \in [Plots -> Steps]}

(***************************************************************************)
(* import_hobo as an action: the whole call on one directory listing.      *)
(***************************************************************************)
ImportHobo(dir) ==
    /\ nfiles + Len(dir) <= MaxFiles
    /\ LET csv == CsvFiles(dir)
           r == ImportFiles(csv, obs, ncommit)
       IN
       /\ obs' = r.table
       /\ ncommit' = r.committed
       /\ ret' = [op |-> "import_hobo",
                  dir |-> dir,
                  before |-> Len(obs),
                  found |-> csv # <<>>,
                  exc |-> r.exc]
    /\ nfiles' = nfiles + Len(dir)
    /\ UNCHANGED <<start, end, arg>>

(***************************************************************************)
(* The inputs of import_hobo.                                              *)
(***************************************************************************)
FileA == [base |-> "a", ext |-> ".csv"]

FileAUpper == [base |-> "A", ext |-> ".csv"]

FileB == [base |-> "b", ext |-> ".csv"]

FileText == [base |-> "a", ext |-> ".txt"]

Midnight == Stamp(1, 12, "AM")

Noon == Stamp(1, 12, "PM")

NextDay == Stamp(2, 1, "AM")

GoodStamps == {Midnight, Noon, NextDay}

BadStamp == Stamp(1, 13, "PM")

Speeds == {-1, 0}

Gusts == {-1, 0}

Directions == {-1, 0, 360, 361}

\* 'index,stamp,speed,gust,direction\n'
Line5(st, s, g, d) ==
    <<Num(1), Comma, st, Comma, Num(s), Comma, Num(g), Comma, Num(d), NewLine>>

Line4 == <<Num(1), Comma, Midnight, Comma, Num(0), Comma, Num(0), NewLine>>

Line6 == <<Num(1), Comma, Noon, Comma, Num(0), Comma, Num(0), Comma, Num(0),
           Comma, Num(0), NewLine>>

BadStampLine == Line5(BadStamp, 0, 0, 0)

BadNumberLine ==
    <<Num(1), Comma, NextDay, Comma, Num(0), Comma, Junk, Comma, Num(0), NewLine>>

TitleLine == <<Junk, NewLine>>

\* A directory listing: files of different names.
Listing(d) == \A i, j \in 1..Len(d) : i # j => d[i].name # d[j].name

InitImport ==
    /\ obs = <<>>
    /\ ncommit = 0
    /\ start = None
    /\ end = None
    /\ nfiles = 0
    /\ arg = <<>>
    /\ ret = NoRet

(***************************************************************************)
(* Import of one-record files over every combination of field values.      *)
(***************************************************************************)
QualityFiles ==
    {[name |-> FileA, lines |-> <<TitleLine, TitleLine, Line5(st, s, g, d)>>] :
        st \in {Midnight, Noon, BadStamp}, s \in Speeds, g \in Gusts, d \in Directions}
    \cup {[name |-> FileText,
           lines |-> <<TitleLine, TitleLine, Line5(Midnight, 0, 0, 0)>>]}

NextQuality == nfiles < MaxFiles /\ \E f \in QualityFiles : ImportHobo(<<f>>)

SpecQuality == InitImport /\ [][NextQuality]_vars

(***************************************************************************)
(* Import of one file made of any lines, into an empty table or into one   *)
(* that holds a record of the plot already.                                *)
(***************************************************************************)
LineKinds ==
    {Line5(Midnight, 0, 0, 0), Line5(Noon, 0, -1, 0), Line5(NextDay, 0, 0, 361),
     Line4, Line6}

LineFiles == [name : {FileA}, lines : SeqsUpTo(LineKinds, MaxLines)]

InitLines ==
    /\ obs \in {<<>>, <<Row("A", <<1, 0>>, 0, 0, 0, "OK")>>}
    /\ ncommit = Len(obs)
    /\ start = None
    /\ end = None
    /\ nfiles = MaxFiles - 1
    /\ arg = <<>>
    /\ ret = NoRet

NextLines == nfiles < MaxFiles /\ \E f \in LineFiles : ImportHobo(<<f>>)

SpecLines == InitLines /\ [][NextLines]_vars

(***************************************************************************)
(* Imports of directories of several files, repeated.                      *)
(***************************************************************************)
ImportLineKinds ==
    {Line5(Midnight, 0, 0, 0), Line5(Noon, 0, 0, 0), BadNumberLine}

ImportContents ==
    {<<TitleLine, TitleLine>>}
    \cup {<<TitleLine, TitleLine, x>> : x \in ImportLineKinds}
    \cup {<<TitleLine, TitleLine, x, y>> : x, y \in ImportLineKinds}

ImportFileSet == [name : {FileA, FileAUpper, FileB}, lines : ImportContents]

ImportDirectories(k) == {d \in [1..k -> ImportFileSet] : Listing(d)}

NextImport ==
    \E k \in 1..(MaxFiles - nfiles) : \E dir \in ImportDirectories(k) : ImportHobo(dir)

SpecImport == InitImport /\ [][NextImport]_vars

(***************************************************************************)
(* A session on a database that import_hobo filled: ShoWind(dbfile, start, *)
(* end), then one call.                                                    *)
(***************************************************************************)
FetchPointData(plot) ==
    /\ ret = NoRet
    /\ \E data \in FetchResults(obs, plot, start, end) :
          ret' = [op |-> "fetch_point_data", plot |-> plot, data |-> data, table |-> obs]
    /\ UNCHANGED <<obs, ncommit, start, end, nfiles, arg>>

CreateFieldKmz(fails) ==
    /\ ret = NoRet
    /\ \E order \in Orders(DistinctPlots(obs, start, end)) :
          ret' = [op |-> "create_field_kmz", order |-> order, fails |-> fails,
                  kmz |-> FieldKmz(order, obs, start, end, fails)]
    /\ UNCHANGED <<obs, ncommit, start, end, nfiles, arg>>

QueryLineKinds ==
    {Line5(Midnight, 0, 0, 0), Line5(Noon, 0, 0, 0), Line5(Noon, 0, -1, 0),
     Line5(NextDay, 0, 0, 0)}

ShortData == {<<>>} \cup {<<x>> : x \in QueryLineKinds} \cup {<<x, y>> : x, y \in QueryLineKinds}

LongData == {<<x, y, z>> : x, y, z \in QueryLineKinds}

FilesA(data) == {[name |-> FileA, lines |-> <<TitleLine, TitleLine>> \o d] : d \in data}

QueryFilesB ==
    {[name |-> FileB, lines |-> <<TitleLine, TitleLine>> \o d] :
        d \in {<<>>, <<Line5(Noon, 0, 0, 0)>>, <<Line5(Noon, 0, -1, 0)>>}}

\* The databases: what import_hobo leaves of a directory of two files.
Databases(data) ==
    {ImportFiles(<<a, b>>, <<>>, 0) : a \in FilesA(data), b \in QueryFilesB}

DateArgs == {None, Iso("T", 1, 0), Iso("T", 1, 12), Iso("T", 2, 1)}

Init ==
    /\ \E db \in Databases(ShortData \cup LongData) :
          obs = db.table /\ ncommit = db.committed
    /\ \E s, e \in DateArgs : start = InitDate(s) /\ end = InitDate(e)
    /\ nfiles = 0
    /\ arg = <<>>
    /\ ret = NoRet

Next ==
    \/ \E plot \in Plots : FetchPointData(plot)
    \/ \E fails \in [Plots -> Steps] : CreateFieldKmz(fails)

Spec == Init /\ [][Next]_vars

(***************************************************************************)
(* A run of the script on a database that import_hobo filled.              *)
(***************************************************************************)
Main(a) ==
    /\ ret = NoRet
    /\ ret' \in MainResults(a, SubSeq(obs, 1, ncommit))
    /\ UNCHANGED <<obs, ncommit, start, end, nfiles, arg>>

MainArgs ==
    [plot : {Absent, "A", "all"},
     start : {None, Iso("T", 1, 0)},
     end : {None, Iso("T", 2, 1)},
     event : {Absent, "E1", "E9"},
     windrose : BOOLEAN,
     timeseries : BOOLEAN,
     write : BOOLEAN]

InitMain ==
    /\ \E db \in Databases(ShortData) : obs = db.table /\ ncommit = db.committed
    /\ start = None
    /\ end = None
    /\ nfiles = 0
    /\ arg = <<>>
    /\ ret = NoRet

NextMain == \E a \in MainArgs : Main(a)

SpecMain == InitMain /\ [][NextMain]_vars

(***************************************************************************)
(* _extract_xy on the literals made of a keyword, a parenthesized payload  *)
(* of up to three numbers and white space around each of the parts.        *)
(***************************************************************************)
MaxNumbers == 3

Spaces == {<<>>, <<" ">>, <<"\t", " ">>}

Keywords ==
    {<<"P", "O", "I", "N", "T">>, <<"p", "o", "i", "n", "t">>, <<"P", "o", "i", "n", "t">>,
     <<"P", "O", "L", "Y", "G", "O", "N">>, <<>>}

\* The numbers written in a payload, with their values in thousandths.
Numbers ==
    {[text |-> <<"1", "0", ".", "0">>, v |-> 10000],
     [text |-> <<"1", "0">>, v |-> 10000],
     [text |-> <<"-", "2", ".", "5">>, v |-> -2500]}

RECURSIVE Joined(_, _)
Joined(nums, gap) ==
    IF nums = <<>> THEN <<>>
    ELSE IF Len(nums) = 1 THEN nums[1].text
    ELSE nums[1].text \o gap \o Joined(Tail(nums), gap)

Literal(lead, kw, gap, inner, nums, sep, trail) ==
    [kw |-> kw,
     nums |-> nums,
     text |-> lead \o kw \o gap \o <<"(">> \o inner \o Joined(nums, sep) \o inner
              \o <<")">> \o trail]

Literals ==
    {Literal(lead, kw, gap, inner, nums, sep, trail) :
        lead \in {<<>>, <<" ">>}, kw \in Keywords, gap \in Spaces, inner \in Spaces,
        nums \in SeqsUpTo(Numbers, MaxNumbers), sep \in Spaces \ {<<>>}, trail \in {<<>>, <<" ">>}}

ExtractAct ==
    /\ ret = NoRet
    /\ ret' = [op |-> "_extract_xy", res |-> ExtractXY(arg.text)]
    /\ UNCHANGED <<obs, ncommit, start, end, nfiles, arg>>

InitWkt ==
    /\ obs = <<>>
    /\ ncommit = 0
    /\ start = None
    /\ end = None
    /\ nfiles = 0
    /\ arg \in Literals
    /\ ret = NoRet

SpecWkt == InitWkt /\ [][ExtractAct]_vars

(***************************************************************************)
(* statistics and _point_kml on the rows of one plot.                      *)
(***************************************************************************)
MaxRows == 2

DirSamples == {0, 10, 60, 90, 120, 170, 180, 190, 270, 300, 350, 360}

Geometries ==
    {None,
     <<"P", "O", "I", "N", "T", "(", "1", "0", " ", "-", "2", ".", "5", ")">>,
     <<"P", "O", "I", "N", "T", "(", "1", "0", ")">>}

StatRows == {Row("A", <<1, 0>>, dir \div 90, (dir \div 90) + 1, dir, "OK") : dir \in DirSamples}

StatisticsAct ==
    /\ ret = NoRet
    /\ ret' = [op |-> "statistics", res |-> Statistics(arg.data)]
    /\ UNCHANGED <<obs, ncommit, start, end, nfiles, arg>>

PointKmlAct ==
    /\ ret = NoRet
    /\ ret' = [op |-> "_point_kml",
               res |-> PointKml("A", arg.geometry, arg.data, <<"A_time.png", "A_rose.png">>)]
    /\ UNCHANGED <<obs, ncommit, start, end, nfiles, arg>>

InitStats ==
    /\ obs = <<>>
    /\ ncommit = 0
    /\ start = None
    /\ end = None
    /\ nfiles = 0
    /\ arg \in [data : SeqsUpTo(StatRows, MaxRows), geometry : Geometries]
    /\ ret = NoRet

NextStats == StatisticsAct \/ PointKmlAct

SpecStats == InitStats /\ [][NextStats]_vars

(***************************************************************************)
(* Properties of import_hobo.                                              *)
(***************************************************************************)
\* The time a stamp of the 12 hour clock names.
StampTime(st) ==
    <<st.d, IF st.h = 12 THEN (IF st.ap = "AM" THEN 0 ELSE 12)
            ELSE (IF st.ap = "AM" THEN st.h ELSE st.h + 12)>>

\* The lines after the first two that hold exactly four commas.
RecordLines(lines) ==
    SelectSeq(SubSeq(lines, 3, Len(lines)),
              LAMBDA l : Cardinality({i \in 1..Len(l) : l[i] = Comma}) = 4)

\* A record line with a readable stamp and three numbers.
WellFormed(l) ==
    /\ Len(l) = 10
    /\ l[3] \in GoodStamps
    /\ \A i \in {5, 7, 9} : l[i].k = "num"

\* The keys of the record lines of the csv files of a directory, in order.
RECURSIVE KeysOf(_)
KeysOf(dir) ==
    IF dir = <<>> THEN <<>>
    ELSE LET f == Head(dir)
             rl == RecordLines(f.lines)
         IN (IF f.name.ext = ".csv"
             THEN [i \in 1..Len(rl) |-> <<Upper(f.name.base), StampTime(rl[i][3])>>]
             ELSE <<>>) \o KeysOf(Tail(dir))

AllWellFormed(dir) ==
    \A i \in 1..Len(dir) :
        LET rl == RecordLines(dir[i].lines) IN
        \A j \in 1..Len(rl) : WellFormed(rl[j])

StoredKeys(from, to) == [i \in 1..(to - from) |-> <<obs[from + i].plot_id, obs[from + i].date_time>>]

FreshKeys(dir, before) ==
    LET ks == KeysOf(dir) IN
    /\ \A i, j \in 1..Len(ks) : ks[i] = ks[j] => i = j
    /\ \A i \in 1..Len(ks), j \in 1..before :
          ks[i] # <<obs[j].plot_id, obs[j].date_time>>

\* C1: every record import_hobo stores is flagged SUSPECT exactly when its speed
\* is below 0, or its gust is below 0, or its direction is below 0 or above 360,
\* and OK otherwise (0 and 360 are OK); the values judged and stored are the
\* ones written on the line.
C1_QualityFlag ==
    /\ \A i \in 1..Len(obs) :
          /\ obs[i].quality \in {"OK", "SUSPECT"}
          /\ obs[i].quality = "SUSPECT" <=>
                \/ obs[i].wind_speed < 0
                \/ obs[i].wind_gust < 0
                \/ obs[i].wind_dir < 0
                \/ obs[i].wind_dir > 360
    /\ (ret.op = "import_hobo" /\ Len(obs) > ret.before) =>
          LET l == ret.dir[1].lines[3]
              r == obs[Len(obs)]
          IN r.wind_speed = l[5].v /\ r.wind_gust = l[7].v /\ r.wind_dir = l[9].v

\* A record at direction 360 and speed 0 stored as OK beside one at 361 stored
\* as SUSPECT.
C1_Witness ==
    \E i, j \in 1..Len(obs) :
        /\ obs[i].wind_dir = 360 /\ obs[i].wind_speed = 0 /\ obs[i].wind_gust = 0
        /\ obs[i].quality = "OK"
        /\ obs[j].wind_dir = 361 /\ obs[j].wind_speed = 0 /\ obs[j].wind_gust = 0
        /\ obs[j].quality = "SUSPECT"

\* C2: whatever is imported, and however often, mean_flow_obs never holds two
\* records of the same plot identifier and time.
C2_UniqueKey ==
    \A i, j \in 1..Len(obs) :
        (obs[i].plot_id = obs[j].plot_id /\ obs[i].date_time = obs[j].date_time)
            => i = j

\* A second import met a key the table held already and was refused.
C2_Witness ==
    /\ ret.op = "import_hobo"
    /\ ret.exc = "IntegrityError"
    /\ ret.before > 0
    /\ Len(obs) = ret.before

\* C3, as claimed: when every record line of a file has a readable stamp and
\* numbers, import_hobo stores one observation for each line after the first
\* two that holds exactly 5 fields.
C3_OneRowPerRecordLine ==
    (ret.op = "import_hobo" /\ ret.found /\ AllWellFormed(ret.dir)) =>
        /\ ret.exc = "none"
        /\ StoredKeys(ret.before, Len(obs)) = KeysOf(ret.dir)

\* C3, amended: the same, for files whose record lines bear times that differ
\* from one another and from those the table holds for the plot already.
C3_OneRowPerFreshRecordLine ==
    (/\ ret.op = "import_hobo"
     /\ ret.found
     /\ AllWellFormed(ret.dir)
     /\ FreshKeys(ret.dir, ret.before)) =>
        /\ ret.exc = "none"
        /\ ncommit = Len(obs)
        /\ StoredKeys(ret.before, Len(obs)) = KeysOf(ret.dir)

\* Two header lines, two records, a line of 4 fields and a third record: three
\* observations stored.
C3_Witness ==
    /\ ret.op = "import_hobo"
    /\ Len(ret.dir[1].lines) = 6
    /\ WellFormed(ret.dir[1].lines[1])
    /\ ret.dir[1].lines[5] = Line4
    /\ Len(obs) = ret.before + 3

(***************************************************************************)
(* Properties of the queries.                                              *)
(***************************************************************************)
\* A datetime as hours since the start of day 0.
Hours(t) == t[1] * 24 + t[2]

InWindow(r) ==
    start # None /\ end # None
    /\ Hours(start) <= Hours(r.date_time) /\ Hours(r.date_time) <= Hours(end)

\* The plots with a record in the window, and the OK records of a plot in it.
Candidates == {obs[i].plot_id : i \in {j \in 1..Len(obs) : InWindow(obs[j])}}

OkRows(plot) ==
    {obs[i] : i \in {j \in 1..Len(obs) :
        obs[j].plot_id = plot /\ InWindow(obs[j]) /\ obs[j].quality = "OK"}}

\* C4: fetch_point_data(plot) returns exactly the stored observations of the
\* plot whose time t has start <= t <= end and whose quality is OK, each once,
\* and leaves the table as it was.
C4_FetchExact ==
    ret.op = "fetch_point_data" =>
        /\ Range(ret.data) = OkRows(ret.plot)
        /\ Len(ret.data) = Cardinality(OkRows(ret.plot))
        /\ obs = ret.table

\* A fetch that returned the record at start and the record at end, with a
\* SUSPECT record of the plot and a record of another plot inside the window.
C4_Witness ==
    /\ ret.op = "fetch_point_data"
    /\ start # None /\ end # None
    /\ Hours(start) < Hours(end)
    /\ \E r \in Range(ret.data) : r.date_time = start
    /\ \E r \in Range(ret.data) : r.date_time = end
    /\ \E r \in Range(obs) : r.plot_id = ret.plot /\ InWindow(r) /\ r.quality = "SUSPECT"
    /\ \E r \in Range(obs) : r.plot_id # ret.plot /\ InWindow(r) /\ r.quality = "OK"

C6_EmptyPlotsOmitted ==
    ret.op = "create_field_kmz" =>
        /\ Range(ret.order) = Candidates
        /\ Len(ret.order) = Cardinality(Candidates)
        /\ \A p \in Range(ret.kmz.doc) : OkRows(p) # {}
        /\ ret.kmz.exc # "none" =>
              OkRows(ret.kmz.at) # {} /\ ret.fails[ret.kmz.at] # "none"
        /\ (\A p \in Candidates : OkRows(p) # {} => ret.fails[p] = "none") =>
              /\ ret.kmz.closed
              /\ Range(ret.kmz.doc) = {p \in Candidates : OkRows(p) # {}}

\* Plot B, whose only record in the window is SUSPECT, comes first and is left
\* out; plot A, after it, gets its placemark.
C6_Witness ==
    /\ ret.op = "create_field_kmz"
    /\ ret.order = <<"B", "A">>
    /\ OkRows("B") = {}
    /\ ret.kmz.doc = <<"A">>
    /\ ret.kmz.closed

(***************************************************************************)
(* Properties of the script.                                               *)
(***************************************************************************)
\* C8: a run given an event name and no start and end pair fetches over the
\* window registered for the event, in the single plot mode as in the all plots
\* mode, and ends in 'Could not load event' when there is no such event; a run
\* given neither a start and end pair nor an event name is turned down before
\* any statement runs.
C8_EventWindow ==
    ret.op = "main" =>
        LET a == ret.args
            pair == a.start # None /\ a.end # None
            accepted == a.plot # Absent /\ (a.windrose \/ a.timeseries \/ a.plot = "all")
        IN
        /\ (accepted /\ a.event # Absent /\ ~pair /\ a.event \in DOMAIN Events) =>
              /\ ret.fetched
              /\ ret.window = <<<<Events[a.event].start.d, Events[a.event].start.h>>,
                                <<Events[a.event].end.d, Events[a.event].end.h>>>>
        /\ (accepted /\ a.event # Absent /\ ~pair /\ a.event \notin DOMAIN Events) =>
              ret.outcome = "Could not load event"
        /\ (a.event = Absent /\ ~pair) => (ret.outcome = "usage" /\ ret.queries = 0)

(***************************************************************************)
(* Properties of _extract_xy.                                              *)
(***************************************************************************)
IsPointKeyword(kw) ==
    kw \in {<<"P", "O", "I", "N", "T">>, <<"p", "o", "i", "n", "t">>, <<"P", "o", "i", "n", "t">>}

\* C9: _extract_xy returns exactly (x, y) for a literal made of the keyword
\* POINT and a parenthesized payload of two numbers x and y, whatever the white
\* space before, after, between keyword and parentheses and inside them, and
\* with or without a decimal point; it fails with ValueError for a literal
\* without the keyword or with a payload of other than two numbers.
C9_ExtractXY ==
    ret.op = "_extract_xy" =>
        IF IsPointKeyword(arg.kw) /\ Len(arg.nums) = 2
        THEN ret.res.ok /\ ret.res.xy = <<arg.nums[1].v, arg.nums[2].v>>
        ELSE ~ret.res.ok

\* ' point\t ( 10 -2.5 ) ' and the like: a lower case keyword, white space at
\* each place, a number without a point, read as (10, -2.5).
C9_Witness ==
    /\ ret.op = "_extract_xy"
    /\ arg.kw = <<"p", "o", "i", "n", "t">>
    /\ Head(arg.text) = " "
    /\ arg.text[Len(arg.text)] = " "
    /\ Find(arg.text, <<"t", "\t", " ", "(", "\t", " ", "1", "0", "\t", " ", "-">>) >= 0
    /\ ret.res.ok
    /\ ret.res.xy = <<10000, -2500>>

(***************************************************************************)
(* Properties of statistics.                                               *)
(***************************************************************************)
DirsOf(data) == [i \in 1..Len(data) |-> data[i].wind_dir]

\* C7: statistics of no rows ends in the outcome that its caller handles as
\* 'no data' (_point_kml, the plot being located, returns the empty text of
\* 'Could not calculate stats'), and never returns a summary of numbers.
C7_EmptyInputIsNoData ==
    /\ (ret.op = "statistics" /\ arg.data = <<>>) => ret.res.kind # "summary"
    /\ (ret.op = "_point_kml" /\ arg.data = <<>> /\ PointLocation(arg.geometry).ok)
           => ret.res.kind = "empty"

\* C10: the direction mean of statistics is the circular mean over 360
\* degrees: of two directions less than 180 degrees apart it is the middle of
\* the shorter arc between them, across the 0/360 boundary when the arc
\* crosses it, so that the mean of {350, 10} is 0 (mod 360); of equal
\* directions it is that direction.
C10_CircularMean ==
    (ret.op = "statistics" /\ arg.data # <<>>) =>
        LET dirs == DirsOf(arg.data)
            a == dirs[1]
            b == dirs[Len(dirs)]
            arc == (b - a) % 360
        IN /\ (Len(dirs) = 2 /\ arc < 180) =>
                  (ret.res.direction_mean - (a + arc \div 2)) % 360 = 0
           /\ Range(dirs) = {350, 10} /\ Len(dirs) = 2 => ret.res.direction_mean % 360 = 0
           /\ Range(dirs) = {a} => (ret.res.direction_mean - a) % 360 = 0

C10_Witness ==
    /\ ret.op = "statistics"
    /\ DirsOf(arg.data) = <<350, 10>>
    /\ ret.res.kind = "summary"
    /\ ret.res.direction_mean = 0

(***************************************************************************)
(* Properties of a failed import.                                          *)
(***************************************************************************)
\* C11: when import_hobo ends in an exception partway through a file, the
\* records it inserted from the earlier lines of that file are committed, and
\* so are the records of the files read to their end earlier in the call: no
\* record of the table is left uncommitted.
C11_StagedRowsCommitted ==
    (ret.op = "import_hobo" /\ ret.exc # "none") => ncommit = Len(obs)

(***************************************************************************)
(* Properties of a failed step of create_field_kmz.                        *)
(***************************************************************************)
\* C12: in create_field_kmz a step that raises for one plot (its chart, its
\* rose or its placemark), whichever the step and wherever the plot stands in
\* the sequence, never ends the call: the document is closed and holds the
\* placemarks of exactly the plots that have records and no failed step.
C12_FailureSkipsPlotOnly ==
    ret.op = "create_field_kmz" =>
        /\ ret.kmz.exc = "none"
        /\ ret.kmz.closed
        /\ Range(ret.kmz.doc) =
              {p \in Candidates : OkRows(p) # {} /\ ret.fails[p] = "none"}

====
